---- MODULE Spec2Model ----
(***************************************************************************)
(* A model of src/src/lexer.py: TokenTemplate.match, ProgramCounter,       *)
(* Lexer.tokenize and UnknownSymbolError.                                  *)
(*                                                                         *)
(* A text is a sequence of characters, an offset is 0-based as in Python   *)
(* (the character at offset p is text[p + 1]).  A compiled regular         *)
(* expression is one of three shapes, matched the way re.match does:       *)
(* a literal string, a greedy one-or-more run of a character class, and a  *)
(* greedy zero-or-more run of a character class.                           *)
(***************************************************************************)
EXTENDS Integers, Sequences, FiniteSets, TLC

\* ------------------------------------------------------------------ bounds
\* Longest text handed to tokenize.
MaxLen == 3
\* Longest template tuple handed to Lexer(...).
MaxTemplates == 3
\* Python lists are unbounded; a scan that never advances would grow the
\* buffer for ever, so the model stops appending at this size.
MaxTokens == 5
\* Longest text of a call in the interleaved specification.
MaxConcLen == 2

\* Most words in a text for the templates of the module's own example.
MaxDocWords == 5

\* --------------------------------------------------------------- constants
NEWLINE == "\n"
DIGIT == "1"
Chars == {DIGIT, NEWLINE}

\* The characters of the line "forget ::= (for ::= forget for get)" of the
\* module's example that its IDENTIFIER, WHITESPACE and FOR templates lex.
DocChars == {"f", "o", "r", "g", "e", "t", " "}

RECURSIVE SeqsUpTo(_, _)
SeqsUpTo(S, n) ==
    IF n = 0 THEN {<<>>}
    ELSE LET shorter == SeqsUpTo(S, n - 1)
         IN  shorter \cup {Append(s, x) : s \in {t \in shorter : Len(t) = n - 1}, x \in S}

Texts == SeqsUpTo(Chars, MaxLen)
ConcTexts == SeqsUpTo(Chars, MaxConcLen)

\* ------------------------------------------------------ regular expressions
Lit(s) == [kind |-> "lit", s |-> s, cls |-> {}]
Plus(cls) == [kind |-> "plus", s |-> <<>>, cls |-> cls]
Star(cls) == [kind |-> "star", s |-> <<>>, cls |-> cls]

\* Number of consecutive characters of cls in text from offset p on.
RECURSIVE RunLen(_, _, _)
RunLen(cls, text, p) ==
    IF p < Len(text) /\ text[p + 1] \in cls
    THEN 1 + RunLen(cls, text, p + 1)
    ELSE 0

\* pattern.match(text, start): the end offset of the match anchored at
\* start, or -1 when the pattern does not match there.
ReMatch(re, text, start) ==
    CASE re.kind = "lit" ->
            IF start + Len(re.s) <= Len(text)
               /\ SubSeq(text, start + 1, start + Len(re.s)) = re.s
            THEN start + Len(re.s) ELSE -1
      [] re.kind = "plus" ->
            IF RunLen(re.cls, text, start) >= 1
            THEN start + RunLen(re.cls, text, start) ELSE -1
      [] OTHER -> start + RunLen(re.cls, text, start)

\* ---------------------------------------------------------------- lexemes
StrValue(s) == [kind |-> "str", s |-> s, n |-> 0]
IntValue(n) == [kind |-> "int", s |-> <<>>, n |-> n]

\* int(raw) for a run of digits.
RECURSIVE IntOf(_)
IntOf(raw) ==
    IF raw = <<>> THEN 0
    ELSE 10 * IntOf(SubSeq(raw, 1, Len(raw) - 1)) + 1

\* len(str(n)) for n >= 0.
RECURSIVE DecLen(_)
DecLen(n) == IF n < 10 THEN 1 ELSE 1 + DecLen(n \div 10)

\* The callbacks a template may carry: None, int, lambda _: "\n",
\* lambda _: "x".
ApplyCallback(cb, raw) ==
    CASE cb = "int" -> IntValue(IntOf(raw))
      [] cb = "nl"  -> StrValue(<<NEWLINE>>)
      [] cb = "x"   -> StrValue(<<"x">>)
      [] OTHER      -> StrValue(raw)

\* ----------------------------------------------------------------- tokens
Token(token_type, lexeme, start, end, line, column) ==
    [token_type |-> token_type, lexeme |-> lexeme, start |-> start,
     end |-> end, line |-> line, column |-> column]

\* Python's None where a token is expected.
None == Token("None", StrValue(<<>>), -1, -1, 0, 0)

\* Token.__len__: len(str(self.lexeme)).
TokenLen(token) ==
    IF token.lexeme.kind = "int" THEN DecLen(token.lexeme.n)
    ELSE Len(token.lexeme.s)

\* bool(token) as used by "if not token" and "if not best": None is false,
\* and a Token, which defines __len__ and no __bool__, is false when its
\* __len__ is 0.
Truthy(token) == token # None /\ TokenLen(token) # 0

\* len(token.lexeme) is defined for a string and raises TypeError for an int.
HasLen(lexeme) == lexeme.kind = "str"
LexemeLen(lexeme) == Len(lexeme.s)

\* --------------------------------------------------------------- templates
TokenTemplate(token_type, regular_expression, callback) ==
    [token_type |-> token_type, regular_expression |-> regular_expression,
     callback |-> callback]

\* The templates a caller may hand to Lexer(...).
tA == TokenTemplate("A", Lit(<<DIGIT>>), "None")
tW == TokenTemplate("W", Plus({DIGIT}), "None")
tN == TokenTemplate("N", Plus({DIGIT}), "int")
tNL == TokenTemplate("NL", Plus({NEWLINE}), "nl")
tB == TokenTemplate("B", Lit(<<NEWLINE, DIGIT>>), "None")
tE == TokenTemplate("E", Star({DIGIT}), "x")
tS == TokenTemplate("S", Star({DIGIT}), "None")

\* IDENTIFIER (declared first), WHITESPACE and FOR (declared last) of the
\* module's example, over lower-case letters and the space.
tIDENTIFIER == TokenTemplate("IDENTIFIER", Plus(DocChars \ {" "}), "None")
tWHITESPACE == TokenTemplate("WHITESPACE", Lit(<<" ">>), "None")
tFOR == TokenTemplate("FOR", Lit(<<"f", "o", "r">>), "None")
DocTemplates == <<tIDENTIFIER, tWHITESPACE, tFOR>>

DocWords == {<<"f", "o", "r">>, <<"f", "o", "r", "g", "e", "t">>, <<"g", "e", "t">>, <<" ">>}

RECURSIVE Concat(_)
Concat(ws) == IF ws = <<>> THEN <<>> ELSE Head(ws) \o Concat(Tail(ws))

TemplatePool == {tA, tW, tN, tNL, tB, tE, tS}

TemplateLists == SeqsUpTo(TemplatePool, MaxTemplates)

\* The loop of TokenTemplate.match that stops at the first newline.
RECURSIVE LineColumnAfterFirst(_, _, _)
LineColumnAfterFirst(value, line, column) ==
    IF value = <<>> THEN [line |-> line, column |-> column]
    ELSE IF Head(value) = NEWLINE
         THEN [line |-> line + 1, column |-> 1]
         ELSE LineColumnAfterFirst(Tail(value), line, column)

\* The loop of TokenTemplate.match over the characters of the match:
\* every newline adds one to the line and sets the column to 1.
RECURSIVE LineColumnAfter(_, _, _)
LineColumnAfter(value, line, column) ==
    IF value = <<>> THEN [line |-> line, column |-> column]
    ELSE IF Head(value) = NEWLINE
         THEN LineColumnAfter(Tail(value), line + 1, 1)
         ELSE LineColumnAfter(Tail(value), line, column)

\* TokenTemplate.match taking the end of the token from the length of the
\* value after the callback instead of matched.end().
TemplateMatchValueEnd(t, text, start, line, column) ==
    LET end == ReMatch(t.regular_expression, text, start)
    IN  IF end = -1 THEN None
        ELSE LET value == SubSeq(text, start + 1, end)
                 lc == LineColumnAfter(value, line, column)
                 lexeme == IF t.callback # "None"
                           THEN ApplyCallback(t.callback, value)
                           ELSE StrValue(value)
             IN  Token(t.token_type, lexeme, start,
                       start + (IF lexeme.kind = "int" THEN DecLen(lexeme.n)
                                ELSE Len(lexeme.s)),
                       lc.line, lc.column)

\* TokenTemplate.match(text, start, line, column).
TemplateMatch(t, text, start, line, column) ==
    LET end == ReMatch(t.regular_expression, text, start)
    IN  IF end = -1 THEN None
        ELSE LET value == SubSeq(text, start + 1, end)
                 lc == LineColumnAfter(value, line, column)
                 lexeme == IF t.callback # "None"
                           THEN ApplyCallback(t.callback, value)
                           ELSE StrValue(value)
             IN  Token(t.token_type, lexeme, start, end, lc.line, lc.column)

\* ---------------------------------------------------------- ProgramCounter
ProgramCounter == [start |-> 0, line |-> 1, column |-> 1]

\* ProgramCounter.accept advancing the offset by the length of the lexeme
\* instead of setting it to token.end.
PCAcceptByLexeme(pcr, token) ==
    [start  |-> pcr.start + TokenLen(token),
     line   |-> token.line,
     column |-> IF token.line # pcr.line THEN 1
                ELSE pcr.column + (token.end - token.start)]

\* ProgramCounter.accept advancing the column by the length of the lexeme
\* instead of token.end - token.start.
PCAcceptLexemeColumn(pcr, token) ==
    [start  |-> token.end,
     line   |-> token.line,
     column |-> IF token.line # pcr.line THEN 1
                ELSE pcr.column + TokenLen(token)]

\* ProgramCounter.accept that leaves the line as it was.
PCAcceptKeepLine(pcr, token) ==
    [start  |-> token.end,
     line   |-> pcr.line,
     column |-> IF token.line # pcr.line THEN 1
                ELSE pcr.column + (token.end - token.start)]

PCAccept(pcr, token) ==
    [start  |-> token.end,
     line   |-> token.line,
     column |-> IF token.line # pcr.line THEN 1
                ELSE pcr.column + (token.end - token.start)]

\* ------------------------------------------------------------------ Lexer
\* Lexer.__best with >= for >: the earlier token survives a tie.
LexerBestFirstWins(best, other) ==
    IF LexemeLen(best.lexeme) >= LexemeLen(other.lexeme) THEN best ELSE other

\* Lexer.__best, where both lexemes have a length.
LexerBest(best, other) ==
    IF LexemeLen(best.lexeme) > LexemeLen(other.lexeme) THEN best ELSE other

\* The for loop of tokenize over templates k..Len(tl), entered with the
\* best token so far; err is set when __best raises TypeError.
RECURSIVE ScanTemplates(_, _, _, _, _)
ScanTemplates(tl, k, text, pcr, best) ==
    IF k > Len(tl) THEN [err |-> FALSE, best |-> best]
    ELSE LET token == TemplateMatch(tl[k], text, pcr.start, pcr.line, pcr.column)
         IN  IF ~Truthy(token) THEN ScanTemplates(tl, k + 1, text, pcr, best)
             ELSE IF ~Truthy(best) THEN ScanTemplates(tl, k + 1, text, pcr, token)
             ELSE IF ~HasLen(best.lexeme) \/ ~HasLen(token.lexeme)
                  THEN [err |-> TRUE, best |-> best]
             ELSE ScanTemplates(tl, k + 1, text, pcr, LexerBest(best, token))

\* text.split(NEWLINE): the number of pieces, and the piece of index i.
RECURSIVE CountNewlines(_)
CountNewlines(s) ==
    IF s = <<>> THEN 0
    ELSE (IF Head(s) = NEWLINE THEN 1 ELSE 0) + CountNewlines(Tail(s))

RECURSIVE SplitPiece(_, _)
SplitPiece(s, i) ==
    LET first == RunLen((Chars \cup DocChars) \ {NEWLINE}, s, 0)
    IN  IF i = 0 THEN SubSeq(s, 1, first)
        ELSE SplitPiece(SubSeq(s, first + 2, Len(s)), i - 1)

NoError == [kind |-> "None", line |-> 0, col |-> 0, excerpt |-> <<>>, dashes |-> 0]

\* UnknownSymbolError(text, line, col): the excerpt is piece line - 1 of the
\* split text (an IndexError when there is no such piece) and the diagram
\* is col - 1 dashes and a caret.
UnknownSymbolError(text, line, col) ==
    IF line - 1 > CountNewlines(text)
    THEN [kind |-> "IndexError", line |-> line, col |-> col,
          excerpt |-> <<>>, dashes |-> 0]
    ELSE [kind |-> "UnknownSymbolError", line |-> line, col |-> col,
          excerpt |-> SplitPiece(text, line - 1), dashes |-> col - 1]

TypeError == [kind |-> "TypeError", line |-> 0, col |-> 0, excerpt |-> <<>>, dashes |-> 0]

\* The filter with "in" for "not in": it keeps what it should drop.
RECURSIVE FilterTokensKept(_, _)
FilterTokensKept(toks, filter) ==
    IF toks = <<>> THEN <<>>
    ELSE IF Head(toks).token_type \in filter
         THEN <<Head(toks)>> \o FilterTokensKept(Tail(toks), filter)
         ELSE FilterTokensKept(Tail(toks), filter)

\* tuple(x for x in self.tokens if not x.token_type in filter_types)
RECURSIVE FilterTokens(_, _)
FilterTokens(toks, filter) ==
    IF toks = <<>> THEN <<>>
    ELSE IF ~(Head(toks).token_type \in filter)
         THEN <<Head(toks)>> \o FilterTokens(Tail(toks), filter)
         ELSE FilterTokens(Tail(toks), filter)

\* The filter_types a caller passes; None and [] both become [] on entry.
FilterChoices == {{}, {"NL", "A"}}

\* ------------------------------------------------------------------ state
Calls == {1, 2}
Lexers == {1, 2}

\* Parser.__init__: no tokens, the cursor at 0.
Parser == [tokens |-> <<>>, current |-> 0]

\* The exception of a list indexed outside its range.
IndexError == [token_type |-> "IndexError"]

\* Python's list[i] for i >= 0, on the sequence that models the list.
ListAt(list, i) == IF i + 1 \in 1..Len(list) THEN list[i + 1] ELSE IndexError

\* Parser.is_at_end: self.current >= len(self.tokens) - 1
ParserIsAtEnd(p) == p.current >= Len(p.tokens) - 1

\* Parser.peek: self.tokens[self.current]
ParserPeek(p) == ListAt(p.tokens, p.current)

\* Parser.peek_next: the token after the cursor unless is_at_end, else None.
ParserPeekNext(p) ==
    IF ~ParserIsAtEnd(p) THEN ListAt(p.tokens, p.current + 1) ELSE None

VARIABLES
    templates,      \* the template tuple every Lexer was constructed with
    tokens,         \* Lexer.tokens of each Lexer instance
    line_counter,   \* Lexer.line_counter of each Lexer instance
    pc,             \* where each tokenize call stands
    self,           \* the Lexer instance each call runs on
    text,           \* each call's text argument
    filter_types,   \* each call's filter_types
    best,           \* each call's local best
    result,         \* the tuple each call returned
    error,          \* the exception each call raised
    parser,         \* the Parser: its tokens and its cursor current
    returned        \* the tokens Parser.advance has returned, in order

vars == <<templates, tokens, line_counter, pc, self, text, filter_types,
          best, result, error, parser, returned>>

\* The instance fields kept in one place for every Lexer, as attributes of
\* the class would be.
SlotShared(l) == 1

\* Where the instance fields of Lexer l are kept: each instance has its own
\* __slots__.
Slot(l) == l

\* After Lexer(templates): tokens and line_counter are declared but not yet
\* assigned; tokenize assigns both before it reads them.
Init ==
    /\ templates \in TemplateLists
    /\ tokens = [l \in Lexers |-> <<>>]
    /\ line_counter = [l \in Lexers |-> ProgramCounter]
    /\ pc = [c \in Calls |-> "idle"]
    /\ self = [c \in Calls |-> 1]
    /\ text = [c \in Calls |-> <<>>]
    /\ filter_types = [c \in Calls |-> {}]
    /\ best = [c \in Calls |-> None]
    /\ result = [c \in Calls |-> <<>>]
    /\ error = [c \in Calls |-> NoError]
    /\ parser = Parser
    /\ returned = <<>>

\* tokenize entered without a new ProgramCounter: the tracker of the call
\* before is kept.
TokenizeKeepTracker(c, l, txt, ft) ==
    /\ pc[c] = "idle"
    /\ self' = [self EXCEPT ![c] = l]
    /\ text' = [text EXCEPT ![c] = txt]
    /\ filter_types' = [filter_types EXCEPT ![c] = ft]
    /\ tokens' = [tokens EXCEPT ![Slot(l)] = <<>>]
    /\ pc' = [pc EXCEPT ![c] = "loop"]
    /\ UNCHANGED <<templates, line_counter, best, result, error>>
    /\ UNCHANGED <<parser, returned>>

\* tokenize entered: filter_types, self.tokens = [], a new ProgramCounter.
Tokenize(c, l, txt, ft) ==
    /\ pc[c] = "idle"
    /\ self' = [self EXCEPT ![c] = l]
    /\ text' = [text EXCEPT ![c] = txt]
    /\ filter_types' = [filter_types EXCEPT ![c] = ft]
    /\ tokens' = [tokens EXCEPT ![Slot(l)] = <<>>]
    /\ line_counter' = [line_counter EXCEPT ![Slot(l)] = ProgramCounter]
    /\ pc' = [pc EXCEPT ![c] = "loop"]
    /\ UNCHANGED <<templates, best, result, error>>
    /\ UNCHANGED <<parser, returned>>

\* while not self.__start == len(text)
LoopTest(c) ==
    /\ pc[c] = "loop"
    /\ pc' = [pc EXCEPT ![c] =
                IF line_counter[Slot(self[c])].start = Len(text[c])
                THEN "return" ELSE "scan"]
    /\ UNCHANGED <<templates, tokens, line_counter, self, text, filter_types,
                   best, result, error>>
    /\ UNCHANGED <<parser, returned>>

\* The loop body that steps over a character no template matches instead
\* of raising.
ScanSkipping(c) ==
    /\ pc[c] = "scan"
    /\ LET pcr == line_counter[Slot(self[c])]
           r == ScanTemplates(templates, 1, text[c], pcr, None)
       IN  IF r.err
           THEN /\ error' = [error EXCEPT ![c] = TypeError]
                /\ pc' = [pc EXCEPT ![c] = "raised"]
                /\ UNCHANGED <<best, line_counter>>
           ELSE IF ~Truthy(r.best)
           THEN /\ line_counter' = [line_counter EXCEPT ![Slot(self[c])] =
                       [@ EXCEPT !.start = @ + 1, !.column = @ + 1]]
                /\ pc' = [pc EXCEPT ![c] = "loop"]
                /\ UNCHANGED <<best, error>>
           ELSE /\ best' = [best EXCEPT ![c] = r.best]
                /\ pc' = [pc EXCEPT ![c] = "append"]
                /\ UNCHANGED <<error, line_counter>>
    /\ UNCHANGED <<templates, tokens, self, text, filter_types, result>>
    /\ UNCHANGED <<parser, returned>>

\* The loop body in which the tracker accepts the best match while the
\* templates are still being asked.
ScanAccepting(c) ==
    /\ pc[c] = "scan"
    /\ LET pcr == line_counter[Slot(self[c])]
           r == ScanTemplates(templates, 1, text[c], pcr, None)
       IN  IF r.err
           THEN /\ error' = [error EXCEPT ![c] = TypeError]
                /\ pc' = [pc EXCEPT ![c] = "raised"]
                /\ UNCHANGED <<best, line_counter>>
           ELSE IF ~Truthy(r.best)
           THEN /\ error' = [error EXCEPT ![c] =
                               UnknownSymbolError(text[c], pcr.line, pcr.column)]
                /\ pc' = [pc EXCEPT ![c] = "raised"]
                /\ best' = [best EXCEPT ![c] = None]
                /\ UNCHANGED line_counter
           ELSE /\ best' = [best EXCEPT ![c] = r.best]
                /\ line_counter' = [line_counter EXCEPT ![Slot(self[c])] =
                                        PCAccept(@, r.best)]
                /\ pc' = [pc EXCEPT ![c] = "append"]
                /\ error' = error
    /\ UNCHANGED <<templates, tokens, self, text, filter_types, result>>
    /\ UNCHANGED <<parser, returned>>

\* One pass of the loop body up to the choice of best: every template is
\* asked for a match at the tracker's position; no best raises
\* UnknownSymbolError with the tracker's line and column.
Scan(c) ==
    /\ pc[c] = "scan"
    /\ LET pcr == line_counter[Slot(self[c])]
           r == ScanTemplates(templates, 1, text[c], pcr, None)
       IN  IF r.err
           THEN /\ error' = [error EXCEPT ![c] = TypeError]
                /\ pc' = [pc EXCEPT ![c] = "raised"]
                /\ best' = best
           ELSE IF ~Truthy(r.best)
           THEN /\ error' = [error EXCEPT ![c] =
                               UnknownSymbolError(text[c], pcr.line, pcr.column)]
                /\ pc' = [pc EXCEPT ![c] = "raised"]
                /\ best' = [best EXCEPT ![c] = None]
           ELSE /\ best' = [best EXCEPT ![c] = r.best]
                /\ pc' = [pc EXCEPT ![c] = "append"]
                /\ error' = error
    /\ UNCHANGED <<templates, tokens, line_counter, self, text, filter_types,
                   result>>
    /\ UNCHANGED <<parser, returned>>

\* Lexer.__accept, first statement: self.tokens.append(token).
AppendStep(c) ==
    /\ pc[c] = "append"
    /\ Len(tokens[Slot(self[c])]) < MaxTokens
    /\ tokens' = [tokens EXCEPT ![Slot(self[c])] = Append(@, best[c])]
    /\ pc' = [pc EXCEPT ![c] = "accept"]
    /\ UNCHANGED <<templates, line_counter, self, text, filter_types, best,
                   result, error>>
    /\ UNCHANGED <<parser, returned>>

\* Lexer.__accept, second statement: self.line_counter.accept(token).
CounterAccept(c) ==
    /\ pc[c] = "accept"
    /\ line_counter' = [line_counter EXCEPT ![Slot(self[c])] = PCAccept(@, best[c])]
    /\ pc' = [pc EXCEPT ![c] = "loop"]
    /\ UNCHANGED <<templates, tokens, self, text, filter_types, best, result,
                   error>>
    /\ UNCHANGED <<parser, returned>>

\* return tuple(x for x in self.tokens if not x.token_type in filter_types)
Return(c) ==
    /\ pc[c] = "return"
    /\ result' = [result EXCEPT ![c] =
                    FilterTokens(tokens[Slot(self[c])], filter_types[c])]
    /\ pc' = [pc EXCEPT ![c] = "done"]
    /\ UNCHANGED <<templates, tokens, line_counter, self, text, filter_types,
                   best, error>>
    /\ UNCHANGED <<parser, returned>>

\* One tokenize call on one Lexer.
Next ==
    \/ \E txt \in Texts, ft \in FilterChoices : Tokenize(1, 1, txt, ft)
    \/ LoopTest(1)
    \/ Scan(1)
    \/ AppendStep(1)
    \/ CounterAccept(1)
    \/ Return(1)

Spec == Init /\ [][Next]_vars

\* Lexer.tokenize run from its first statement to its end with nothing
\* else running: the loop from tracker pcr and buffer toks on.
RECURSIVE TokenizeLoop(_, _, _, _, _)
TokenizeLoop(tl, txt, ft, pcr, toks) ==
    IF pcr.start = Len(txt)
    THEN [pc |-> "done", result |-> FilterTokens(toks, ft), error |-> NoError]
    ELSE LET r == ScanTemplates(tl, 1, txt, pcr, None)
         IN  IF r.err
             THEN [pc |-> "raised", result |-> <<>>, error |-> TypeError]
             ELSE IF ~Truthy(r.best)
             THEN [pc |-> "raised", result |-> <<>>,
                   error |-> UnknownSymbolError(txt, pcr.line, pcr.column)]
             ELSE IF Len(toks) >= MaxTokens
             THEN [pc |-> "append", result |-> <<>>, error |-> NoError]
             ELSE TokenizeLoop(tl, txt, ft, PCAccept(pcr, r.best), Append(toks, r.best))

TokenizeAlone(tl, txt, ft) == TokenizeLoop(tl, txt, ft, ProgramCounter, <<>>)

\* Two tokenize calls whose steps interleave, each on either of two Lexers
\* constructed with the same templates.
ConcTemplateLists == {<<tW, tNL>>, <<tA, tB>>}

InitConc ==
    /\ Init
    /\ templates \in ConcTemplateLists

NextConc ==
    \E c \in Calls :
        \/ \E l \in Lexers, txt \in ConcTexts : Tokenize(c, l, txt, {})
        \/ LoopTest(c)
        \/ Scan(c)
        \/ AppendStep(c)
        \/ CounterAccept(c)
        \/ Return(c)

SpecConc == InitConc /\ [][NextConc]_vars

\* Two tokenize calls on one Lexer, the second entered once the first has
\* returned or raised.
SeqTemplateLists ==
    {<<tW, tNL>>, <<tA, tB>>, <<tW, tN>>, <<tB>>, <<tE, tNL>>, <<tS, tW, tNL>>}

InitSeq ==
    /\ Init
    /\ templates \in SeqTemplateLists

Ended(c) == pc[c] \in {"done", "raised"}

NextSeq ==
    \/ \E txt \in Texts, ft \in FilterChoices : Tokenize(1, 1, txt, ft)
    \/ \E txt \in Texts, ft \in FilterChoices : Ended(1) /\ Tokenize(2, 1, txt, ft)
    \/ \E c \in Calls :
        \/ LoopTest(c)
        \/ Scan(c)
        \/ AppendStep(c)
        \/ CounterAccept(c)
        \/ Return(c)

SpecSeq == InitSeq /\ [][NextSeq]_vars

\* One tokenize call on a Lexer constructed with any template tuple or
\* with the templates of the module's example.
DocTexts == {Concat(ws) : ws \in SeqsUpTo(DocWords, MaxDocWords)}

InitDoc ==
    /\ templates \in TemplateLists \cup {DocTemplates}
    /\ tokens = [l \in Lexers |-> <<>>]
    /\ line_counter = [l \in Lexers |-> ProgramCounter]
    /\ pc = [c \in Calls |-> "idle"]
    /\ self = [c \in Calls |-> 1]
    /\ text = [c \in Calls |-> <<>>]
    /\ filter_types = [c \in Calls |-> {}]
    /\ best = [c \in Calls |-> None]
    /\ result = [c \in Calls |-> <<>>]
    /\ error = [c \in Calls |-> NoError]
    /\ parser = Parser
    /\ returned = <<>>

NextDoc ==
    \/ /\ pc[1] = "idle" /\ templates # DocTemplates
       /\ \E txt \in Texts, ft \in FilterChoices : Tokenize(1, 1, txt, ft)
    \/ /\ pc[1] = "idle" /\ templates = DocTemplates
       /\ \E txt \in DocTexts, ft \in {{}, {"WHITESPACE"}} : Tokenize(1, 1, txt, ft)
    \/ LoopTest(1)
    \/ Scan(1)
    \/ AppendStep(1)
    \/ CounterAccept(1)
    \/ Return(1)

SpecDoc == InitDoc /\ [][NextDoc]_vars

\* A Parser is handed the result of a finished tokenize call: the tokens
\* field declared in Parser.__init__ is set to the returned sequence.
ParserLoad ==
    /\ pc[1] = "done"
    /\ parser = Parser
    /\ Len(result[1]) >= 1
    /\ parser' = [tokens |-> result[1], current |-> 0]
    /\ returned' = <<>>
    /\ UNCHANGED <<templates, tokens, line_counter, pc, self, text,
                   filter_types, best, result, error>>

\* Parser.advance, called while not is_at_end: the token at the cursor is
\* returned and the cursor moves forward by one.
Advance ==
    /\ parser.tokens # <<>>
    /\ ~ParserIsAtEnd(parser)
    /\ returned' = Append(returned, ListAt(parser.tokens, parser.current))
    /\ parser' = [parser EXCEPT !.current = @ + 1]
    /\ UNCHANGED <<templates, tokens, line_counter, pc, self, text,
                   filter_types, best, result, error>>

\* One tokenize call, then a Parser reading its result.
NextParser ==
    \/ \E txt \in Texts, ft \in FilterChoices : Tokenize(1, 1, txt, ft)
    \/ LoopTest(1)
    \/ Scan(1)
    \/ AppendStep(1)
    \/ CounterAccept(1)
    \/ Return(1)
    \/ ParserLoad
    \/ Advance

SpecParser == Init /\ [][NextParser]_vars

\* ------------------------------------------------------------- properties
\* The call the one-call specification runs, its Lexer's tracker and buffer.
Tracker == line_counter[Slot(self[1])]
Buffer == tokens[Slot(self[1])]

\* The templates, by index, whose pattern matches at the tracker's offset,
\* and the raw length of such a match.
Matching ==
    {j \in 1..Len(templates) :
        ReMatch(templates[j].regular_expression, text[1], Tracker.start) # -1}
RawLen(j) == ReMatch(templates[j].regular_expression, text[1], Tracker.start) - Tracker.start
\* The token template j produces at the tracker's position.
TokenOf(j) == TemplateMatch(templates[j], text[1], Tracker.start, Tracker.line, Tracker.column)
\* The templates whose token the loop takes as a match.
Candidates == {j \in 1..Len(templates) : Truthy(TokenOf(j))}

SetMin(S) == CHOOSE x \in S : \A y \in S : x <= y
SetMax(S) == CHOOSE x \in S : \A y \in S : x >= y

\* C1 as stated: when two or more templates match with the same raw length
\* and none matches longer, the token chosen is that of the earliest
\* declared of them.
RawTied == {j \in Matching : \A i \in Matching : RawLen(j) >= RawLen(i)}
C1_EarliestTiedWins ==
    (pc[1] = "append" /\ Cardinality(RawTied) >= 2)
        => best[1] = TokenOf(SetMin(RawTied))

\* C1 amended: when two or more templates produce tokens whose lexemes have
\* the same length and none produces a longer lexeme, the token chosen is
\* that of the latest declared of them.
LexemeTied ==
    {j \in Candidates :
        \A i \in Candidates :
            LexemeLen(TokenOf(j).lexeme) >= LexemeLen(TokenOf(i).lexeme)}
C1_LatestTiedWins ==
    (pc[1] = "append" /\ Cardinality(Candidates) >= 2)
        => /\ \A j \in Candidates : HasLen(TokenOf(j).lexeme)
           /\ best[1] = TokenOf(SetMax(LexemeTied))

\* Three templates tie and the token chosen is not the first one's.
C1_Witness ==
    /\ pc[1] = "append"
    /\ Cardinality(LexemeTied) >= 3
    /\ best[1] # TokenOf(SetMin(LexemeTied))
    /\ best[1] = TokenOf(SetMax(LexemeTied))

\* C2: the token chosen is never that of a template whose raw match is
\* strictly shorter than another template's raw match at the same offset.
C2_LongestRawWins ==
    pc[1] = "append"
        => \A j \in Matching : RawLen(j) <= best[1].end - best[1].start

\* C3: a tuple returned without a filter tiles the text: it starts at 0,
\* each token starts where the one before ends, the last one ends at
\* len(text), no token is empty, and the empty text gives the empty tuple.
Tiles(toks, txt) ==
    /\ (txt = <<>>) <=> (toks = <<>>)
    /\ toks # <<>> => toks[1].start = 0 /\ toks[Len(toks)].end = Len(txt)
    /\ \A i \in 2..Len(toks) : toks[i].start = toks[i - 1].end
    /\ \A i \in 1..Len(toks) : toks[i].start < toks[i].end
C3_Coverage ==
    (pc[1] = "done" /\ filter_types[1] = {}) => Tiles(result[1], text[1])

C3_Witness ==
    /\ pc[1] = "done"
    /\ filter_types[1] = {}
    /\ Len(result[1]) >= 2
    /\ \E i \in 1..Len(result[1]) : result[1][i].end - result[1][i].start >= 2

\* C4: at an offset short of the end where no template matches, the next
\* step raises UnknownSymbolError with the tracker's line and column and
\* leaves the tracker and the buffer as they are; after that the call
\* accepts nothing more and returns nothing.
C4_FatalOnGap ==
    [][ /\ (pc[1] = "scan" /\ Matching = {})
            => /\ pc'[1] = "raised"
               /\ error'[1].kind = "UnknownSymbolError"
               /\ error'[1].line = Tracker.line
               /\ error'[1].col = Tracker.column
               /\ UNCHANGED <<tokens, line_counter, result>>
        /\ pc[1] = "raised"
            => pc'[1] = "raised" /\ UNCHANGED <<tokens, line_counter, result, error>>
      ]_vars

\* The error was raised after tokens were accepted, short of the end.
C4_Witness ==
    /\ pc[1] = "raised"
    /\ error[1].kind = "UnknownSymbolError"
    /\ Matching = {}
    /\ Len(Buffer) >= 2
    /\ Tracker.start < Len(text[1])
    /\ result[1] = <<>>

\* C5: every token accepted moves the offset forward.
C5_AcceptAdvances ==
    [][ pc[1] = "accept" /\ pc'[1] = "loop"
            => line_counter'[Slot(self[1])].start > Tracker.start ]_vars

\* C6: the line and column of an UnknownSymbolError are those of the
\* offset it was raised at.
RECURSIVE SinceNewline(_, _)
SinceNewline(txt, p) ==
    IF p = 0 \/ txt[p] = NEWLINE THEN 0 ELSE 1 + SinceNewline(txt, p - 1)
C6_ColumnIsPosition ==
    (pc[1] = "raised" /\ error[1].kind = "UnknownSymbolError")
        => /\ error[1].line = 1 + CountNewlines(SubSeq(text[1], 1, Tracker.start))
           /\ error[1].col = 1 + SinceNewline(text[1], Tracker.start)
           /\ error[1].dashes = SinceNewline(text[1], Tracker.start)

\* C7: the tuple returned is the buffer without the tokens whose type is
\* filtered, in the buffer's order, and the whole buffer when nothing is
\* filtered.
C7_Filtering ==
    pc[1] = "done"
        => LET Kept(t) == t.token_type \notin filter_types[1]
           IN  /\ result[1] = SelectSeq(Buffer, Kept)
               /\ filter_types[1] = {} => result[1] = Buffer

\* Some tokens were dropped and more than one was kept.
C7_Witness ==
    /\ pc[1] = "done"
    /\ filter_types[1] # {}
    /\ Len(result[1]) >= 2
    /\ Len(result[1]) < Len(Buffer)

\* C8: a token whose raw match holds k newlines has the tracker's line
\* plus k as its line, column 1 when k >= 1 and the tracker's column when
\* k = 0; accepting it moves the tracker's line by k.
NewlinesIn(token) == CountNewlines(SubSeq(text[1], token.start + 1, token.end))
C8_NewlineAccounting ==
    [][ /\ pc[1] = "append"
            => /\ best[1].line = Tracker.line + NewlinesIn(best[1])
               /\ NewlinesIn(best[1]) >= 1 => best[1].column = 1
               /\ NewlinesIn(best[1]) = 0 => best[1].column = Tracker.column
        /\ pc[1] = "accept"
            => line_counter'[Slot(self[1])].line = Tracker.line + NewlinesIn(best[1])
      ]_vars

\* A token with two newlines, matched from the middle of a line, accepted.
C8_Witness ==
    /\ pc[1] = "loop"
    /\ Buffer # <<>>
    /\ LET last == Buffer[Len(Buffer)]
       IN  /\ NewlinesIn(last) >= 2
           /\ last.start >= 1
           /\ text[1][last.start] # NEWLINE
           /\ last.column = 1
           /\ Tracker.line = 3

\* C9: a call that fails fails with UnknownSymbolError.
C9_SingleErrorKind ==
    pc[1] = "raised" => error[1].kind = "UnknownSymbolError"

\* What a finished call hands its caller, and whether it is what the same
\* call hands its caller when nothing else runs.
AsAlone(c) ==
    LET alone == TokenizeAlone(templates, text[c], filter_types[c])
    IN  /\ pc[c] = "done" => alone.pc = "done" /\ result[c] = alone.result
        /\ pc[c] = "raised" => alone.pc = "raised" /\ error[c] = alone.error

Started(c) == pc[c] # "idle"

\* C10 as stated: two calls on the same Lexer whose steps interleave each
\* end as they end when run alone.
C10_SameLexerIndependent ==
    (Started(1) /\ Started(2) /\ self[1] = self[2]) => AsAlone(1) /\ AsAlone(2)

\* C10 amended: two calls on distinct Lexers whose steps interleave use
\* distinct trackers and buffers and each end as they end when run alone.
C10_DistinctLexersIndependent ==
    (Started(1) /\ Started(2) /\ self[1] # self[2])
        => /\ Slot(self[1]) # Slot(self[2])
           /\ AsAlone(1) /\ AsAlone(2)

\* Call 1 has returned two tokens from one Lexer while call 2 is in the
\* middle of its second pass of the loop on the other.
C10_Witness ==
    /\ self[1] # self[2]
    /\ pc[1] = "done" /\ Len(result[1]) >= 2
    /\ pc[2] = "accept" /\ Len(tokens[Slot(self[2])]) = 2
    /\ text[1] # text[2]

\* C11: every call enters with an empty buffer and a tracker at offset 0,
\* line 1, column 1, and a call made after another call on the same Lexer
\* has returned or raised ends as it ends when it is the only call made.
C11_SequentialIndependence ==
    [][ /\ \A c \in Calls :
            (pc[c] = "idle" /\ pc'[c] = "loop")
                => /\ tokens'[Slot(self'[c])] = <<>>
                   /\ line_counter'[Slot(self'[c])] = ProgramCounter
        /\ \A c \in Calls :
            LET alone == TokenizeAlone(templates', text'[c], filter_types'[c])
            IN  /\ pc'[c] = "done" => alone.pc = "done" /\ result'[c] = alone.result
                /\ pc'[c] = "raised" => alone.pc = "raised" /\ error'[c] = alone.error
      ]_vars

\* The first call raised UnknownSymbolError on its second line after
\* accepting tokens, the second call on the same Lexer returned.
C11_Witness ==
    /\ self[1] = self[2]
    /\ pc[1] = "raised" /\ error[1].kind = "UnknownSymbolError" /\ error[1].line >= 2
    /\ pc[2] = "done" /\ Len(result[2]) >= 2
    /\ result[2][1].line = 1 /\ result[2][1].column = 1

\* txt[s .. e) is what pattern re matches when anchored at offset s: the
\* literal itself, or the whole run of the class that starts at s.
IsMatchAt(re, txt, s, e) ==
    /\ s <= e /\ e <= Len(txt)
    /\ CASE re.kind = "lit" ->
               /\ e - s = Len(re.s)
               /\ \A i \in 1..Len(re.s) : txt[s + i] = re.s[i]
         [] OTHER ->
               /\ re.kind = "plus" => e > s
               /\ \A i \in (s + 1)..e : txt[i] \in re.cls
               /\ e < Len(txt) => txt[e + 1] \notin re.cls

\* C12: every token a template produces at the tracker's offset s, the
\* one chosen included, starts at s, spans exactly the raw text the
\* template's pattern matches there, and carries callback(raw), or raw
\* when the template has no callback.
RawSpanOf(t, token) ==
    LET raw == SubSeq(text[1], token.start + 1, token.end)
    IN  /\ token.token_type = t.token_type
        /\ token.start = Tracker.start
        /\ IsMatchAt(t.regular_expression, text[1], token.start, token.end)
        /\ token.lexeme = IF t.callback = "None" THEN StrValue(raw)
                          ELSE ApplyCallback(t.callback, raw)
C12_RawSpan ==
    /\ pc[1] \in {"scan", "append"}
        => \A j \in 1..Len(templates) :
              TokenOf(j) # None => RawSpanOf(templates[j], TokenOf(j))
    /\ pc[1] = "append"
        => \E j \in 1..Len(templates) : RawSpanOf(templates[j], best[1])

\* A token past offset 0 whose value is shorter than its raw text.
C12_Witness ==
    /\ pc[1] = "append"
    /\ best[1].start >= 1
    /\ best[1].end - best[1].start = 2
    /\ TokenLen(best[1]) = 1

\* C13: with IDENTIFIER declared first and FOR declared last, "for" is
\* lexed as one FOR token and "forget" as one IDENTIFIER token, and
\* "forget for get" as IDENTIFIER, FOR, IDENTIFIER at columns 1, 8 and 12;
\* with any templates, among the tokens whose lexemes tie for the greatest
\* length at an offset, the one chosen is that of the last-declared
\* template.
Word(w, ty, start, column) ==
    Token(ty, StrValue(w), start, start + Len(w), 1, column)
wFor == <<"f", "o", "r">>
wForget == <<"f", "o", "r", "g", "e", "t">>
wGet == <<"g", "e", "t">>
C13_KeywordDeclaredLast ==
    /\ (pc[1] = "done" /\ templates = DocTemplates)
        => /\ text[1] = wFor => Buffer = <<Word(wFor, "FOR", 0, 1)>>
           /\ text[1] = wForget => Buffer = <<Word(wForget, "IDENTIFIER", 0, 1)>>
           /\ (text[1] = wForget \o <<" ">> \o wFor \o <<" ">> \o wGet
               /\ filter_types[1] = {"WHITESPACE"})
                => result[1] = << Word(wForget, "IDENTIFIER", 0, 1),
                                  Word(wFor, "FOR", 7, 8),
                                  Word(wGet, "IDENTIFIER", 11, 12) >>
    /\ (pc[1] = "append" /\ Cardinality(LexemeTied) >= 2)
        => \E j \in LexemeTied :
              /\ \A i \in LexemeTied : i <= j
              /\ best[1] = TokenOf(j)

\* The line of the example was lexed: FOR won its tie against IDENTIFIER.
C13_Witness ==
    /\ pc[1] = "done"
    /\ templates = DocTemplates
    /\ text[1] = wForget \o <<" ">> \o wFor \o <<" ">> \o wGet
    /\ filter_types[1] = {"WHITESPACE"}
    /\ Len(result[1]) = 3
    /\ result[1][2].token_type = "FOR"

\* C14: accepting a token sets the column to 1 when the token's line is
\* not the tracker's line and adds token.end - token.start to it
\* otherwise, sets the offset to token.end and the line to token.line; so
\* while no accepted token holds a newline followed by another character
\* of its line, the column is 1 + the characters consumed since the last
\* newline.
NewlineThenMore(token) ==
    \E i \in (token.start + 1)..(token.end - 1) :
        text[1][i] = NEWLINE /\ text[1][i + 1] # NEWLINE
ColumnInSync ==
    (pc[1] \in {"loop", "scan", "append", "return", "done", "raised"}
     /\ \A i \in 1..Len(Buffer) : ~NewlineThenMore(Buffer[i]))
        => Tracker.column = 1 + SinceNewline(text[1], Tracker.start)
C14_TrackerUpdate ==
    [][ /\ pc[1] = "accept"
            => LET after == line_counter'[Slot(self[1])]
               IN  /\ after.start = best[1].end
                   /\ after.line = best[1].line
                   /\ best[1].line # Tracker.line => after.column = 1
                   /\ best[1].line = Tracker.line
                        => after.column = Tracker.column + (best[1].end - best[1].start)
        /\ ColumnInSync'
      ]_vars

\* A token whose value is shorter than its raw text was accepted in the
\* middle of a line after a newline token.
C14_Witness ==
    /\ pc[1] = "loop"
    /\ Len(Buffer) >= 2
    /\ \A i \in 1..Len(Buffer) : ~NewlineThenMore(Buffer[i])
    /\ Buffer[1].line = 2
    /\ TokenLen(Buffer[2]) < Buffer[2].end - Buffer[2].start
    /\ Tracker.column = 3

\* C15: within one iteration of the loop, asking the templates (matching
\* or not, winning or losing) leaves the tracker and the buffer as they
\* were; the buffer then grows by exactly the chosen token, and the
\* tracker changes only in the step that accepts that token.
C15_OnlyAcceptedMoves ==
    [][ /\ pc[1] \in {"loop", "scan", "return", "done", "raised"}
            => /\ tokens' = tokens
               /\ line_counter' = line_counter
        /\ pc[1] = "append"
            => /\ \E j \in Candidates : best[1] = TokenOf(j)
               /\ tokens'[Slot(self[1])] = Append(Buffer, best[1])
               /\ line_counter' = line_counter
        /\ pc[1] = "accept"
            => /\ tokens' = tokens
               /\ Buffer[Len(Buffer)] = best[1]
               /\ line_counter'[Slot(self[1])].start = best[1].end
               /\ pc'[1] = "loop"
      ]_vars

\* Three templates were asked at one position: one did not match, one
\* matched and lost, one was accepted; the buffer holds the accepted one.
C15_Witness ==
    /\ pc[1] = "accept"
    /\ Len(templates) = 3
    /\ Len(Buffer) = 2
    /\ \E j \in 1..3 : ReMatch(templates[j].regular_expression, text[1], Buffer[2].start) = -1
    /\ \E j \in 1..3 :
          /\ ReMatch(templates[j].regular_expression, text[1], Buffer[2].start) # -1
          /\ templates[j].token_type # Buffer[2].token_type

\* C16: at the start of every iteration of the loop the offset lies in
\* 0..len(text) and the line is 1 + the number of newlines before the
\* offset; so the line of an UnknownSymbolError always names a piece of
\* the split text and building the excerpt never raises.
C16_LineOffsetInvariant ==
    /\ pc[1] \in {"loop", "scan"}
        => /\ 0 <= Tracker.start
           /\ Tracker.start <= Len(text[1])
           /\ Tracker.line = 1 + CountNewlines(SubSeq(text[1], 1, Tracker.start))
    /\ error[1].kind # "IndexError"
    /\ error[1].kind = "UnknownSymbolError"
        => /\ error[1].line - 1 \in 0..CountNewlines(text[1])
           /\ error[1].line = Tracker.line
           /\ error[1].excerpt = SplitPiece(text[1], Tracker.line - 1)

\* UnknownSymbolError was built for the third line of the text, after
\* tokens that crossed two newlines.
C16_Witness ==
    /\ pc[1] = "raised"
    /\ error[1].kind = "UnknownSymbolError"
    /\ error[1].line = 3
    /\ Tracker.start = 2
    /\ Len(Buffer) >= 1

\* C17 as stated: for a Parser holding the n >= 1 tokens of a lexer
\* result, is_at_end is true exactly when current >= n; so once is_at_end
\* is true the advance calls made while it was false have returned every
\* one of the n tokens, and advance, peek and peek_next never index outside
\* the list. The code compares current with n - 1, so is_at_end is already
\* true at the last token, which advance never returns.
C17_EndOfStream ==
    parser.tokens # <<>>
        => /\ ParserIsAtEnd(parser) <=> parser.current >= Len(parser.tokens)
           /\ ParserIsAtEnd(parser) => returned = parser.tokens
           /\ \A i \in 1..Len(returned) : returned[i] # IndexError
           /\ ~ParserIsAtEnd(parser)
                => /\ ParserPeek(parser) # IndexError
                   /\ ParserPeekNext(parser) # IndexError
====
